---- MODULE Spec2Model ----
(***************************************************************************)
(* Model of the chart components' computational core: the y-axis tick      *)
(* generation and the y-axis domain calculation of the line chart          *)
(* (registry/new-york/line-chart/line-chart.tsx), the percentage           *)
(* normalization of the area chart and the constants it derives from its   *)
(* variant, the animation of the radial chart, the active section of the   *)
(* pie chart and the layout and axes of the bar chart.                     *)
(*                                                                         *)
(* Numbers.  A JavaScript number is modelled as a fixed-point value: the   *)
(* integer n stands for the real number n / Unit.  On this grid every sum, *)
(* difference, comparison, floor and ceil the code performs is computed    *)
(* exactly, as over the real numbers; the quotient range / targetSteps is  *)
(* never formed, every comparison with it is cross-multiplied.  The three  *)
(* non-finite values the code can produce (NaN, Infinity, -Infinity) are   *)
(* sentinels outside the grid, and the operators below give them their     *)
(* IEEE-754 results.  The rounding of binary64 is not modelled: where the  *)
(* code adds a step such as 0.1 repeatedly, the double it holds can differ *)
(* from the grid value in its last bit.                                    *)
(***************************************************************************)
EXTENDS Integers, Sequences, FiniteSets, TLC

VARIABLES
    \* calculateYAxisTicks: arguments
    domain, tickCount, dataMax,
    \* calculateYAxisTicks: locals and position
    step, currentTick, ticks, lastTick, pc,
    \* number of calls of getNiceStepSize made by the run
    stepCalls,
    \* LineChartComponent.yDomain: props, result and position
    data, dataKeys, cfgDomain, cfgPadding, yDomain, dpc,
    \* calculateNiceYDomain: the padding parameter and the locals min, max,
    \* paddedMin, paddedMax
    padding, scanMin, scanMax, paddedMin, paddedMax,
    \* AreaChartComponent.normalizedData: the objects in memory, the props
    \* data (references), variant and the value keys, the memo's result and
    \* the position
    heap, areaData, variant, areaKeys, normalizedData, apc,
    \* RadialChartShapeComponent: whether it is mounted, its props, its state
    \* and refs, the pending timers and animation frames, the clock
    mounted, startAngle, percentage, animationDuration,
    isChartVisible, observing, currentEndAngle, currentPercentage, animationRef,
    timers, frames, now,
    \* the progress animate computed last, the next animation frame id, the
    \* number of input changes so far
    progress, nextId, changes,
    \* the startAngle and data.percentage of the run that set the displayed
    \* values last (of the mount while none has)
    drawnStartAngle, drawnPercentage,
    \* PieChartComponent: the props data, showActiveSection and innerRadius,
    \* the state hoverIndex, and the mouse event or render that came last
    pieData, showActiveSection, innerRadius, hoverIndex, pieEvent,
    \* AreaChartComponent: the props variant, areas, showLegend, showDots,
    \* showActiveDot and useGradient, the constants the render derives from
    \* them, the memo chartAreas and the position
    areaProps, areaFlags, chartAreas, fpc,
    \* BarChartComponent: the props variant, layout and yAxisConfig, the
    \* constants isHorizontalBars and chartLayout with the axes rendered from
    \* them, and the position
    barProps, barAxes, bpc

tickVars == <<domain, tickCount, dataMax, step, currentTick, ticks, lastTick, pc, stepCalls>>
domainVars == <<data, dataKeys, cfgDomain, cfgPadding, yDomain, dpc,
                padding, scanMin, scanMax, paddedMin, paddedMax>>
vars == <<domain, tickCount, dataMax, step, currentTick, ticks, lastTick, pc, stepCalls,
          data, dataKeys, cfgDomain, cfgPadding, yDomain, dpc,
          padding, scanMin, scanMax, paddedMin, paddedMax,
          heap, areaData, variant, areaKeys, normalizedData, apc,
          mounted, startAngle, percentage, animationDuration,
          isChartVisible, observing, currentEndAngle, currentPercentage, animationRef,
          timers, frames, now, progress, nextId, changes,
          drawnStartAngle, drawnPercentage,
          pieData, showActiveSection, innerRadius, hoverIndex, pieEvent,
          areaProps, areaFlags, chartAreas, fpc,
          barProps, barAxes, bpc>>
areaVars == <<heap, areaData, variant, areaKeys, normalizedData, apc>>
radialVars == <<mounted, startAngle, percentage, animationDuration,
                isChartVisible, observing, currentEndAngle, currentPercentage,
                animationRef, timers, frames, now, progress, nextId, changes,
                drawnStartAngle, drawnPercentage>>
pieVars == <<pieData, showActiveSection, innerRadius, hoverIndex, pieEvent>>
flagVars == <<areaProps, areaFlags, chartAreas, fpc>>
barVars == <<barProps, barAxes, bpc>>
viewVars == <<pieVars, flagVars, barVars>>
otherVars == <<areaVars, radialVars, viewVars>>

----------------------------------------------------------------------------
(* Numbers *)

Unit == 1000

NaN == -2000000001
Infinity == 2000000000
NegInfinity == -2000000000

\* a property or argument that was not passed
Undefined == -2000000002

IsFinite(x) == x \notin {NaN, Infinity, NegInfinity}

\* a <= b, a < b, a >= b, a > b of JavaScript: false when an operand is NaN
Le(a, b) == a # NaN /\ b # NaN /\ a <= b
Lt(a, b) == a # NaN /\ b # NaN /\ a < b
Ge(a, b) == Le(b, a)
Gt(a, b) == Lt(b, a)

\* a + b
Add(a, b) ==
    IF a = NaN \/ b = NaN THEN NaN
    ELSE IF IsFinite(a) /\ IsFinite(b) THEN a + b
    ELSE IF IsFinite(a) THEN b
    ELSE IF IsFinite(b) THEN a
    ELSE IF a = b THEN a ELSE NaN

\* -a
Neg(a) ==
    IF a = NaN THEN NaN
    ELSE IF a = Infinity THEN NegInfinity
    ELSE IF a = NegInfinity THEN Infinity
    ELSE 0 - a

\* a - b
Sub(a, b) == Add(a, Neg(b))

\* Math.floor(a / b) * b
FloorTo(a, b) ==
    IF IsFinite(a) /\ IsFinite(b) /\ b > 0 THEN (a \div b) * b
    ELSE IF a \in {Infinity, NegInfinity} /\ IsFinite(b) /\ b > 0 THEN a
    ELSE IF IsFinite(a) /\ IsFinite(b) /\ b < 0 THEN ((0 - a) \div (0 - b)) * b
    ELSE NaN

\* Math.ceil(a / b) * b, b > 0
CeilTo(a, b) == IF IsFinite(a) THEN 0 - (((0 - a) \div b) * b) ELSE a

Last(s) == s[Len(s)]

----------------------------------------------------------------------------
(* getNiceStepSize *)

MaxExp == 6

RECURSIVE Pow10(_)
Pow10(k) == IF k = 0 THEN 1 ELSE 10 * Pow10(k - 1)

\* the values Math.pow(10, k) can take on the grid
Magnitudes == {Pow10(k) : k \in 0..MaxExp}

\* Math.pow(10, Math.floor(Math.log10(range / targetSteps))), range, targetSteps > 0:
\* the power of ten m with m <= range / targetSteps < 10 m
Magnitude(range, targetSteps) ==
    CHOOSE m \in Magnitudes : m * targetSteps <= range /\ range < 10 * m * targetSteps

\* Mutant: the thresholds compared with < instead of <=
NiceStep_Strict(range, targetSteps, magnitude) ==
    IF range < 1 * targetSteps * magnitude THEN 1
    ELSE IF range < 2 * targetSteps * magnitude THEN 2
    ELSE IF range < 5 * targetSteps * magnitude THEN 5
    ELSE 10

\* Mutant: the third threshold mistyped as 3
NiceStep_Three(range, targetSteps, magnitude) ==
    IF range <= 1 * targetSteps * magnitude THEN 1
    ELSE IF range <= 2 * targetSteps * magnitude THEN 2
    ELSE IF range <= 3 * targetSteps * magnitude THEN 5
    ELSE 10

\* Mutant: the step 5 left out of the nice steps
NiceStep_NoFive(range, targetSteps, magnitude) ==
    IF range <= 1 * targetSteps * magnitude THEN 1
    ELSE IF range <= 2 * targetSteps * magnitude THEN 2
    ELSE 10

\* normalizedStep <= 1 ? 1 : normalizedStep <= 2 ? 2 : normalizedStep <= 5 ? 5 : 10
\* with normalizedStep = (range / targetSteps) / magnitude
NiceStep(range, targetSteps, magnitude) ==
    IF range <= 1 * targetSteps * magnitude THEN 1
    ELSE IF range <= 2 * targetSteps * magnitude THEN 2
    ELSE IF range <= 5 * targetSteps * magnitude THEN 5
    ELSE 10

\* targetSteps >= 0 (the only call passes tickCount - 1 with tickCount >= 2).
\*   targetSteps = 0: rawStep is Infinity (range > 0) or NaN / -Infinity, the
\*                    normalized step is NaN, the result 10 * magnitude
\*   range < 0:       Math.log10 of a negative number is NaN
\*   range = 0:       Math.log10(0) = -Infinity, magnitude 0, result 10 * 0
getNiceStepSize(range, targetSteps) ==
    IF targetSteps = 0 THEN (IF range > 0 THEN Infinity ELSE NaN)
    ELSE IF range < 0 THEN NaN
    ELSE IF range = 0 THEN 0
    ELSE NiceStep(range, targetSteps, Magnitude(range, targetSteps))
            * Magnitude(range, targetSteps)

----------------------------------------------------------------------------
(* calculateYAxisTicks *)

\* Mutant: the early return taken for tickCount < 1 only
IsSingleTick_Strict(n) == n < 1

\* if (tickCount <= 1) return [min]
IsSingleTick(n) == n <= 1

\* Math.floor(min / step) * step: NaN for a step of 0, Infinity or NaN
NiceMin(min, s) == IF IsFinite(s) /\ s # 0 THEN FloorTo(min, s) ELSE NaN

\* Mutant: the walk stops before max (currentTick < max)
LoopCond_Strict(cur, max, len, n) == Lt(cur, max) /\ len < n * 2

\* Mutant: the two conditions joined by || and the cap tested with <=
LoopCond_OrCap(cur, max, len, n) == Le(cur, max) \/ len <= n * 2

\* while (currentTick <= max && ticks.length < tickCount * 2)
LoopCond(cur, max, len, n) == Le(cur, max) /\ len < n * 2

\* Mutant: every walked value is pushed
KeepTick_NoFilter(cur, min) == TRUE

\* if (currentTick >= min) ticks.push(currentTick)
KeepTick(cur, min) == Ge(cur, min)

\* Mutant: the factor 0.1 forgotten (dataMax - lastTick < step)
ExtraTickCond_WholeStep(dmax, last, s) ==
    /\ Gt(Sub(dmax, last), 0)
    /\ Lt(Sub(dmax, last), s)

\* dataMax - lastTick > 0 && dataMax - lastTick < step * 0.1
ExtraTickCond(dmax, last, s) ==
    /\ Gt(Sub(dmax, last), 0)
    /\ IF IsFinite(Sub(dmax, last)) /\ IsFinite(s)
          THEN 10 * Sub(dmax, last) < s
          ELSE Lt(Sub(dmax, last), s)

EarlyReturn ==
    /\ pc = "start"
    /\ IsSingleTick(tickCount)
    /\ ticks' = <<domain[1]>>
    /\ pc' = "done"
    /\ UNCHANGED <<domain, tickCount, dataMax, step, currentTick, lastTick, stepCalls>>
    /\ UNCHANGED <<domainVars, otherVars>>

Begin ==
    /\ pc = "start"
    /\ ~IsSingleTick(tickCount)
    /\ step' = getNiceStepSize(domain[2] - domain[1], tickCount - 1)
    /\ stepCalls' = stepCalls + 1
    /\ currentTick' = NiceMin(domain[1], step')
    /\ ticks' = <<>>
    /\ pc' = "loop"
    /\ UNCHANGED <<domain, tickCount, dataMax, lastTick>>
    /\ UNCHANGED <<domainVars, otherVars>>

LoopBody ==
    /\ pc = "loop"
    /\ LoopCond(currentTick, domain[2], Len(ticks), tickCount)
    /\ ticks' = IF KeepTick(currentTick, domain[1]) THEN Append(ticks, currentTick) ELSE ticks
    /\ currentTick' = Add(currentTick, step)
    /\ UNCHANGED <<domain, tickCount, dataMax, step, lastTick, pc, stepCalls>>
    /\ UNCHANGED <<domainVars, otherVars>>

\* const lastTick = ticks[ticks.length - 1]: undefined for no ticks, NaN in
\* every subtraction that follows
LoopExit ==
    /\ pc = "loop"
    /\ ~LoopCond(currentTick, domain[2], Len(ticks), tickCount)
    /\ lastTick' = IF Len(ticks) = 0 THEN NaN ELSE Last(ticks)
    /\ pc' = "extra"
    /\ UNCHANGED <<domain, tickCount, dataMax, step, currentTick, ticks, stepCalls>>
    /\ UNCHANGED <<domainVars, otherVars>>

ExtraTick ==
    /\ pc = "extra"
    /\ ticks' = IF ExtraTickCond(dataMax, lastTick, step)
                   THEN Append(ticks, Add(lastTick, step))
                   ELSE ticks
    /\ pc' = "done"
    /\ UNCHANGED <<domain, tickCount, dataMax, step, currentTick, lastTick, stepCalls>>
    /\ UNCHANGED <<domainVars, otherVars>>

----------------------------------------------------------------------------
(* calculateNiceYDomain *)

\* a * b of two grid numbers (exact when the product is on the grid); an
\* infinite a keeps its sign for b > 0
Mul(a, b) ==
    IF a = NaN \/ b = NaN THEN NaN
    ELSE IF IsFinite(a)
        THEN (a \div Unit) * b + ((a % Unit) * b) \div Unit
    ELSE IF b > 0 THEN a
    ELSE IF b < 0 THEN Neg(a)
    ELSE NaN

MathMin(a, b) == IF a = NaN \/ b = NaN THEN NaN ELSE IF a <= b THEN a ELSE b
MathMax(a, b) == IF a = NaN \/ b = NaN THEN NaN ELSE IF a >= b THEN a ELSE b

\* typeof item[key] === 'number' ? item[key] : 0
ValueOf(item, key) == IF item[key].kind = "number" THEN item[key].v ELSE 0

\* the two nested forEach loops, from point i and key j on, folding
\* acc = <<min, max>>
RECURSIVE ScanFrom(_, _, _, _, _)
ScanFrom(points, keys, i, j, acc) ==
    IF i > Len(points) THEN acc
    ELSE IF j > Len(keys) THEN ScanFrom(points, keys, i + 1, 1, acc)
    ELSE ScanFrom(points, keys, i, j + 1,
                  <<MathMin(acc[1], ValueOf(points[i], keys[j])),
                    MathMax(acc[2], ValueOf(points[i], keys[j]))>>)

\* Mutant: the scan started from min = 0, max = 0
ScanRange_FromZero(points, keys) == ScanFrom(points, keys, 1, 1, <<0, 0>>)

\* let min = Infinity, max = -Infinity; data.forEach(...)
ScanRange(points, keys) == ScanFrom(points, keys, 1, 1, <<Infinity, NegInfinity>>)

\* Mutant: the test for an empty scan left out
IsEmptyScan_Never(min, max) == FALSE

\* if (min === Infinity || max === -Infinity) return [0, 100]
IsEmptyScan(min, max) == min = Infinity \/ max = NegInfinity

FallbackDomain == <<0, 100 * Unit>>

\* Mutant: the tier of 10000 rounded to 100 instead of 500
getRoundingFactor_NoFiveHundred(value) ==
    IF value <= 100 * Unit THEN 10 * Unit
    ELSE IF value <= 10000 * Unit THEN 100 * Unit
    ELSE IF value <= 50000 * Unit THEN 1000 * Unit
    ELSE 5000 * Unit

getRoundingFactor(value) ==
    IF value <= 100 * Unit THEN 10 * Unit
    ELSE IF value <= 1000 * Unit THEN 100 * Unit
    ELSE IF value <= 10000 * Unit THEN 500 * Unit
    ELSE IF value <= 50000 * Unit THEN 1000 * Unit
    ELSE 5000 * Unit

\* Mutant: the lower bound not clamped at 0
PaddedMin_NoClamp(min, max, pad) == Sub(min, Mul(Sub(max, min), pad))

\* Math.max(0, min - (range * padding)), range = max - min
PaddedMin(min, max, pad) == MathMax(0, Sub(min, Mul(Sub(max, min), pad)))

\* max + (range * padding)
PaddedMax(min, max, pad) == Add(max, Mul(Sub(max, min), pad))

\* Math.floor(paddedMin / getRoundingFactor(paddedMin)) * getRoundingFactor(paddedMin)
RoundDown(v) == FloorTo(v, getRoundingFactor(v))

\* Mutant: the upper bound rounded down like the lower one
RoundUp_Floor(v) == FloorTo(v, getRoundingFactor(v))

\* Math.ceil(paddedMax / getRoundingFactor(paddedMax)) * getRoundingFactor(paddedMax)
RoundUp(v) == CeilTo(v, getRoundingFactor(v))

\* Mutant: no default in the component, the parameter's own default applies
ResolvePadding_NoDefault(p) == p

\* yAxisConfig?.padding || 0.15
ResolvePadding(p) == IF p = Undefined \/ p = 0 THEN (15 * Unit) \div 100 ELSE p

\* the parameter default: padding = 0.1
ParamPadding(p) == IF p = Undefined THEN Unit \div 10 ELSE p

calculateNiceYDomain(points, keys, pad) ==
    LET scanned == ScanRange(points, keys)
        min == scanned[1]
        max == scanned[2]
    IN  IF IsEmptyScan(min, max) THEN FallbackDomain
        ELSE <<RoundDown(PaddedMin(min, max, ParamPadding(pad))),
               RoundUp(PaddedMax(min, max, ParamPadding(pad)))>>

\* if (yAxisConfig?.domain && yAxisConfig.domain !== "auto") return yAxisConfig.domain
IsExplicitDomain(d) == d.kind = "explicit"

UseExplicitDomain ==
    /\ dpc = "start"
    /\ IsExplicitDomain(cfgDomain)
    /\ yDomain' = cfgDomain.v
    /\ dpc' = "done"
    /\ UNCHANGED <<data, dataKeys, cfgDomain, cfgPadding,
                   padding, scanMin, scanMax, paddedMin, paddedMax>>
    /\ UNCHANGED <<tickVars, otherVars>>

\* the call calculateNiceYDomain(data, dataKeys, padding) and its scan
ScanData ==
    /\ dpc = "start"
    /\ ~IsExplicitDomain(cfgDomain)
    /\ padding' = ParamPadding(ResolvePadding(cfgPadding))
    /\ scanMin' = ScanRange(data, dataKeys)[1]
    /\ scanMax' = ScanRange(data, dataKeys)[2]
    /\ dpc' = "scanned"
    /\ UNCHANGED <<data, dataKeys, cfgDomain, cfgPadding, yDomain, paddedMin, paddedMax>>
    /\ UNCHANGED <<tickVars, otherVars>>

ReturnFallback ==
    /\ dpc = "scanned"
    /\ IsEmptyScan(scanMin, scanMax)
    /\ yDomain' = FallbackDomain
    /\ dpc' = "done"
    /\ UNCHANGED <<data, dataKeys, cfgDomain, cfgPadding,
                   padding, scanMin, scanMax, paddedMin, paddedMax>>
    /\ UNCHANGED <<tickVars, otherVars>>

PadDomain ==
    /\ dpc = "scanned"
    /\ ~IsEmptyScan(scanMin, scanMax)
    /\ paddedMin' = PaddedMin(scanMin, scanMax, padding)
    /\ paddedMax' = PaddedMax(scanMin, scanMax, padding)
    /\ dpc' = "padded"
    /\ UNCHANGED <<data, dataKeys, cfgDomain, cfgPadding, yDomain, padding, scanMin, scanMax>>
    /\ UNCHANGED <<tickVars, otherVars>>

RoundDomain ==
    /\ dpc = "padded"
    /\ yDomain' = <<RoundDown(paddedMin), RoundUp(paddedMax)>>
    /\ dpc' = "done"
    /\ UNCHANGED <<data, dataKeys, cfgDomain, cfgPadding,
                   padding, scanMin, scanMax, paddedMin, paddedMax>>
    /\ UNCHANGED <<tickVars, otherVars>>

----------------------------------------------------------------------------
(* Inputs of calculateYAxisTicks *)

MaxTickCount == 6
MaxDomainHalves == 8
MaxNegHalves == 2

DomainValues ==
    {i * (Unit \div 2) : i \in (0 - MaxNegHalves)..MaxDomainHalves} \cup {100 * Unit}

DataMaxValues ==
    {v + o : v \in DomainValues, o \in {0, Unit \div 20}}
        \cup {97 * Unit, 101 * Unit, NegInfinity}

TicksInit ==
    /\ domain \in DomainValues \X DomainValues
    /\ tickCount \in 0..MaxTickCount
    /\ dataMax \in DataMaxValues
    /\ step = 0
    /\ currentTick = 0
    /\ ticks = <<>>
    /\ lastTick = 0
    /\ pc = "start"
    /\ stepCalls = 0

TicksIdle ==
    /\ domain = <<0, 0>>
    /\ tickCount = 0
    /\ dataMax = 0
    /\ step = 0
    /\ currentTick = 0
    /\ ticks = <<>>
    /\ lastTick = 0
    /\ pc = "idle"
    /\ stepCalls = 0

(* Inputs of LineChartComponent.yDomain and calculateNiceYDomain *)

MaxPoints == 2

Keys == {"a", "b"}

Num(n) == [kind |-> "number", v |-> n * Unit]
Str == [kind |-> "string", v |-> 0]
Missing == [kind |-> "undefined", v |-> 0]

\* small datasets: every sequence of at most MaxPoints points
SmallPoints ==
    {[a |-> x, b |-> y] : x \in {Num(-50), Num(-20), Num(0), Num(1), Num(10), Str},
                          y \in {Num(2), Num(5), Missing}}

\* datasets of one or two points that reach the higher rounding tiers
LargePoints ==
    {[a |-> x, b |-> Missing] : x \in {Num(10), Num(950), Num(9900), Num(49500), Num(62000)}}

Datasets ==
    UNION {[1..n -> SmallPoints] : n \in 0..MaxPoints}
        \cup UNION {[1..n -> LargePoints] : n \in 1..2}

KeyLists == {<<>>, <<"a">>, <<"a", "b">>}

\* yAxisConfig.padding: not given, 0, 0.1
Paddings == {Undefined, 0, Unit \div 10}

\* yAxisConfig.domain: not given, "auto", [0, 100]
ConfigDomains ==
    {[kind |-> "undefined", v |-> <<0, 0>>],
     [kind |-> "auto", v |-> <<0, 0>>],
     [kind |-> "explicit", v |-> <<0, 100 * Unit>>]}

DomainInit ==
    /\ data \in Datasets
    /\ dataKeys \in KeyLists
    /\ cfgDomain \in ConfigDomains
    /\ cfgPadding \in Paddings
    /\ yDomain = <<0, 0>>
    /\ dpc = "start"
    /\ padding = 0
    /\ scanMin = 0
    /\ scanMax = 0
    /\ paddedMin = 0
    /\ paddedMax = 0

DomainIdle ==
    /\ data = <<>>
    /\ dataKeys = <<>>
    /\ cfgDomain = [kind |-> "undefined", v |-> <<0, 0>>]
    /\ cfgPadding = 0
    /\ yDomain = <<0, 0>>
    /\ dpc = "idle"
    /\ padding = 0
    /\ scanMin = 0
    /\ scanMax = 0
    /\ paddedMin = 0
    /\ paddedMax = 0

----------------------------------------------------------------------------
(* AreaChartComponent.normalizedData (src/unnamed/part_000)

   The values of the area chart are exact rationals <<numerator,
   denominator>> in lowest terms with a positive denominator, so that
   value / total * 100 is computed as over the real numbers; <<0, 0>> is
   NaN.  Objects live in heap, a sequence indexed by reference. *)

Abs(n) == IF n < 0 THEN 0 - n ELSE n

\* Euclid's algorithm.  Here and in the operators below an operand is bound
\* to its value (\in a singleton) before it is used more than once; this
\* changes the cost of evaluating a nested expression, not its value.
RECURSIVE Gcd(_, _)
Gcd(a, b) ==
    IF b = 0 THEN a
    ELSE CHOOSE g \in {Gcd(y, r) : y \in {b}, r \in {a % b}} : TRUE

RatNaN == <<0, 0>>

\* the number n / d, d # 0
Rat(n, d) ==
    CHOOSE r \in {<<((IF y < 0 THEN 0 - 1 ELSE 1) * x) \div g,
                    ((IF y < 0 THEN 0 - 1 ELSE 1) * y) \div g>> :
                  x \in {n}, y \in {d}, g \in {Gcd(Abs(n), Abs(d))}} : TRUE

RatAdd(p, q) ==
    CHOOSE r \in {IF a = RatNaN \/ b = RatNaN THEN RatNaN
                  ELSE Rat(a[1] * b[2] + b[1] * a[2], a[2] * b[2]) :
                  a \in {p}, b \in {q}} : TRUE

RatMul(p, q) ==
    CHOOSE r \in {IF a = RatNaN \/ b = RatNaN THEN RatNaN
                  ELSE Rat(a[1] * b[1], a[2] * b[2]) :
                  a \in {p}, b \in {q}} : TRUE

\* p / q; a zero divisor is outside the rationals and is given as NaN (the
\* code divides by total only when total > 0)
RatDiv(p, q) ==
    CHOOSE r \in {IF a = RatNaN \/ b = RatNaN \/ b[1] = 0 THEN RatNaN
                  ELSE Rat(a[1] * b[2], a[2] * b[1]) :
                  a \in {p}, b \in {q}} : TRUE

RatGt(p, q) == p # RatNaN /\ q # RatNaN /\ p[1] * q[2] > q[1] * p[2]

\* the values a property of a point can hold
NumberValue(n, d) == [kind |-> "number", v |-> Rat(n, d), text |-> ""]
StringValue(t) == [kind |-> "string", v |-> RatNaN, text |-> t]
NoValue == [kind |-> "undefined", v |-> RatNaN, text |-> ""]

\* Number(x): a number is itself, the string "3" is 3, any other string and
\* undefined are NaN
ToNumber(x) ==
    IF x.kind = "number" THEN x.v
    ELSE IF x.kind = "string" /\ x.text = "3" THEN Rat(3, 1)
    ELSE RatNaN

\* Number(item[key]) || 0
NumberOrZero(x) ==
    IF ToNumber(x) = RatNaN \/ ToNumber(x)[1] = 0 THEN Rat(0, 1) ELSE ToNumber(x)

\* dataKeys.reduce((sum, key) => sum + (Number(item[key]) || 0), 0), from key j on
RECURSIVE TotalFrom(_, _, _, _)
TotalFrom(item, keys, j, sum) ==
    IF j > Len(keys) THEN sum
    ELSE TotalFrom(item, keys, j + 1, RatAdd(sum, NumberOrZero(item[keys[j]])))

Total(item, keys) == TotalFrom(item, keys, 1, Rat(0, 1))

\* Mutant: the share is not scaled to a percentage
Percentage_Fraction(x, total) == RatDiv(NumberOrZero(x), total)

\* Mutant: the value is scaled by 100 without being divided by the total
Percentage_NoDivide(x, total) == RatMul(NumberOrZero(x), Rat(100, 1))

\* ((Number(item[key]) || 0) / total) * 100
Percentage(x, total) == RatMul(RatDiv(NumberOrZero(x), total), Rat(100, 1))

KeySet(keys) == {keys[j] : j \in 1..Len(keys)}

\* const newItem = { ...item }; if (total > 0) dataKeys.forEach(key => newItem[key] = ...)
NormalizeItem(item, keys) ==
    IF RatGt(Total(item, keys), Rat(0, 1))
        THEN [f \in DOMAIN item |->
                 IF f \in KeySet(keys)
                     THEN [kind |-> "number", v |-> Percentage(item[f], Total(item, keys)),
                           text |-> ""]
                     ELSE item[f]]
    ELSE item

\* Mutant: newItem is the input point itself, not a copy of it
NewItemRef_Alias(i, refs, size) == refs[i]

\* the reference of the object { ...item } made for the i-th point
NewItemRef(i, refs, size) == size + i

\* if (variant !== 'stacked-expanded') return data
\* Mutant: every variant is normalized
IsExpanded_Always(v) == TRUE

IsExpanded(v) == v = "stacked-expanded"

\* the memory after data.map(...) over the points refs
HeapAfterMap(h, refs, keys) ==
    LET written == {NewItemRef(i, refs, Len(h)) : i \in 1..Len(refs)}
        top == IF \E r \in written : r > Len(h) THEN Len(h) + Len(refs) ELSE Len(h)
        Source(r) == CHOOSE i \in 1..Len(refs) : NewItemRef(i, refs, Len(h)) = r
    IN  [r \in 1..top |->
            IF r \in written THEN NormalizeItem(h[refs[Source(r)]], keys) ELSE h[r]]

MappedRefs(h, refs) == [i \in 1..Len(refs) |-> NewItemRef(i, refs, Len(h))]

\* the normalizedData memo computed for the props data, variant, chartAreas
Normalize ==
    /\ apc = "start"
    /\ IF IsExpanded(variant)
           THEN /\ heap' = HeapAfterMap(heap, areaData, areaKeys)
                /\ normalizedData' = MappedRefs(heap, areaData)
           ELSE /\ heap' = heap
                /\ normalizedData' = areaData
    /\ apc' = "once"
    /\ UNCHANGED <<areaData, variant, areaKeys>>
    /\ UNCHANGED <<tickVars, domainVars, radialVars, viewVars>>

\* the memo computed again with its own result passed back as the data prop
NormalizeAgain ==
    /\ apc = "once"
    /\ areaData' = normalizedData
    /\ IF IsExpanded(variant)
           THEN /\ heap' = HeapAfterMap(heap, normalizedData, areaKeys)
                /\ normalizedData' = MappedRefs(heap, normalizedData)
           ELSE /\ heap' = heap
                /\ normalizedData' = normalizedData
    /\ apc' = "twice"
    /\ UNCHANGED <<variant, areaKeys>>
    /\ UNCHANGED <<tickVars, domainVars, radialVars, viewVars>>

(* Inputs of AreaChartComponent.normalizedData *)

MaxRows == 2

AreaPoints ==
    {[month |-> StringValue("Jan"), x |-> a, y |-> b] :
        a \in {NumberValue(0, 1), NumberValue(1, 1), NumberValue(3, 1),
               StringValue("3"), StringValue("n/a")},
        b \in {NumberValue(0, 1), NumberValue(2, 1), NumberValue(3, 1),
               NumberValue(-1, 1), NoValue}}

AreaDatasets == UNION {[1..n -> AreaPoints] : n \in 0..MaxRows}

AreaKeyLists == {<<>>, <<"x">>, <<"x", "y">>}

\* AreaChartVariant
Variants ==
    {"default", "linear", "step", "stacked", "stacked-expanded", "gradient",
     "legend", "interactive"}

\* the variants exercised on datasets of every size; the others take the
\* branch of 'default' and are exercised on datasets of at most one point
FullVariants == {"default", "stacked-expanded"}

AreaInit ==
    /\ heap \in AreaDatasets
    /\ areaData = [i \in 1..Len(heap) |-> i]
    /\ variant \in Variants
    /\ variant \in FullVariants \/ Len(heap) <= 1
    /\ areaKeys \in AreaKeyLists
    /\ normalizedData = <<>>
    /\ apc = "start"

AreaIdle ==
    /\ heap = <<>>
    /\ areaData = <<>>
    /\ variant = "default"
    /\ areaKeys = <<>>
    /\ normalizedData = <<>>
    /\ apc = "idle"

----------------------------------------------------------------------------
(* RadialChartShapeComponent (src/unnamed/part_001)

   Angles, percentages and the animation progress are exact rationals.  The
   clock now is Date.now() in milliseconds; it advances in steps of
   ClockStep while a callback is pending, and a pending callback runs at
   most MaxLag steps after the first clock reading at which it can run. *)

(* Inputs of RadialChartShapeComponent *)

MaxChanges == 1

MaxLag == 1

StartAngles == {Rat(90, 1), Rat(0, 1)}

\* data.percentage: 0, 50 and 2.6
Percentages == {Rat(0, 1), Rat(50, 1), Rat(13, 5)}

\* animationDuration in seconds: 0 and 0.3
Durations == {Rat(0, 1), Rat(3, 10)}

RatSub(p, q) == RatAdd(p, RatMul(q, Rat(0 - 1, 1)))
RatLt(p, q) == RatGt(q, p)
RatLe(p, q) == p # RatNaN /\ q # RatNaN /\ p[1] * q[2] <= q[1] * p[2]

\* Math.round(x): the integer nearest to x, halves going up
MathRound(p) ==
    IF p = RatNaN THEN RatNaN ELSE Rat((2 * p[1] + p[2]) \div (2 * p[2]), 1)

\* startAngle + (data.percentage * 3.6)
TargetEndAngle(start, pct) == RatAdd(start, RatMul(pct, Rat(36, 10)))

\* setTimeout(..., 100)
StartDelay == 100

ClockStep == 100

\* animationDuration * 1000
DurationMs(seconds) == RatMul(seconds, Rat(1000, 1))

\* Mutant: the ratio is not clamped at 1
Progress_NoClamp(elapsed, duration) ==
    IF duration[1] = 0
        THEN (IF elapsed = 0 THEN RatNaN ELSE Rat(2, 1))
    ELSE RatDiv(Rat(elapsed, 1), duration)

\* Math.min(elapsed / duration, 1); x / 0 is Infinity for x > 0 and NaN for
\* x = 0
Progress(elapsed, duration) ==
    IF duration[1] = 0
        THEN (IF elapsed = 0 THEN RatNaN ELSE Rat(1, 1))
    ELSE IF RatLt(RatDiv(Rat(elapsed, 1), duration), Rat(1, 1))
        THEN RatDiv(Rat(elapsed, 1), duration)
    ELSE Rat(1, 1)

\* 1 - Math.pow(1 - progress, 4)
EaseOutQuart(p) ==
    CHOOSE e \in {RatSub(Rat(1, 1), RatMul(RatMul(q, q), RatMul(q, q))) :
                  q \in {RatSub(Rat(1, 1), p)}} : TRUE

\* Mutant: the final percentage is rounded like the intermediate ones
FinalPercentage_Rounded(endPercentage) == MathRound(endPercentage)

\* setCurrentPercentage(endPercentage)
FinalPercentage(endPercentage) == endPercentage

\* Mutant: the run starts from the angle on display
NewRun_FromCurrent(t, start, pct, seconds) ==
    [startTime |-> t,
     duration |-> DurationMs(seconds),
     startEndAngle |-> currentEndAngle,
     endEndAngle |-> TargetEndAngle(start, pct),
     endPercentage |-> pct,
     due |-> t + StartDelay]

\* the constants the animation effect binds when it runs, and its timer
NewRun(t, start, pct, seconds) ==
    [startTime |-> t,
     duration |-> DurationMs(seconds),
     startEndAngle |-> start,
     endEndAngle |-> TargetEndAngle(start, pct),
     endPercentage |-> pct,
     due |-> t + StartDelay]

\* requestAnimationFrame(animate) called at time t by the run c
NewFrame(c, id, t) ==
    [id |-> id,
     at |-> t,
     startTime |-> c.startTime,
     duration |-> c.duration,
     startEndAngle |-> c.startEndAngle,
     endEndAngle |-> c.endEndAngle,
     endPercentage |-> c.endPercentage]

\* Mutant: the cleanup leaves the start-delay timer pending
ClearTimeout_Keep(ts) == ts

\* clearTimeout(timeoutId)
ClearTimeout(ts) == {}

\* if (animationRef.current) cancelAnimationFrame(animationRef.current)
CancelFrame(fs, ref) == IF ref # 0 THEN {f \in fs : f.id # ref} ELSE fs

\* the IntersectionObserver callback with entry.isIntersecting, and the
\* animation effect that runs for isChartVisible = true
Intersect ==
    /\ mounted
    /\ observing
    /\ ~isChartVisible
    /\ isChartVisible' = TRUE
    /\ observing' = FALSE
    /\ timers' = {NewRun(now, startAngle, percentage, animationDuration)}
    /\ UNCHANGED <<mounted, startAngle, percentage, animationDuration, currentEndAngle,
                   currentPercentage, animationRef, frames, now, progress, nextId,
                   changes, drawnStartAngle, drawnPercentage>>
    /\ UNCHANGED <<tickVars, domainVars, areaVars, viewVars>>

\* the start-delay timer fires
TimerFire ==
    /\ \E t \in timers :
           /\ now >= t.due
           /\ timers' = timers \ {t}
           /\ frames' = frames \cup {NewFrame(t, nextId, now)}
    /\ animationRef' = nextId
    /\ nextId' = nextId + 1
    /\ UNCHANGED <<mounted, startAngle, percentage, animationDuration, isChartVisible,
                   observing, currentEndAngle, currentPercentage, now, progress,
                   changes, drawnStartAngle, drawnPercentage>>
    /\ UNCHANGED <<tickVars, domainVars, areaVars, viewVars>>

\* if (progress < 1)
IsRunning(p) == RatLt(p, Rat(1, 1))

\* animate, run as an animation frame callback at a later clock reading than
\* the one it was requested at; its constants are bound in the order the
\* code computes them
Frame ==
    /\ \E f \in frames :
       \E elapsed \in {now - f.startTime} :
       \E p \in {Progress(elapsed, f.duration)} :
       \E easeOutQuart \in {EaseOutQuart(p)} :
       \E newEndAngle \in {RatAdd(f.startEndAngle,
                                  RatMul(RatSub(f.endEndAngle, f.startEndAngle),
                                         easeOutQuart))} :
       \E newPercentage \in {RatMul(f.endPercentage, easeOutQuart)} :
           /\ now > f.at
           /\ progress' = p
           /\ drawnStartAngle' = f.startEndAngle
           /\ drawnPercentage' = f.endPercentage
           /\ IF IsRunning(p)
                  THEN /\ currentEndAngle' = newEndAngle
                       /\ currentPercentage' = MathRound(newPercentage)
                       /\ frames' = (frames \ {f}) \cup {NewFrame(f, nextId, now)}
                       /\ animationRef' = nextId
                       /\ nextId' = nextId + 1
                  ELSE /\ currentEndAngle' = f.endEndAngle
                       /\ currentPercentage' = FinalPercentage(f.endPercentage)
                       /\ frames' = frames \ {f}
                       /\ UNCHANGED <<animationRef, nextId>>
    /\ UNCHANGED <<mounted, startAngle, percentage, animationDuration, isChartVisible,
                   observing, timers, now, changes>>
    /\ UNCHANGED <<tickVars, domainVars, areaVars, viewVars>>

\* a render with one of startAngle, data.percentage and animationDuration
\* changed: the cleanup of the previous animation effect, then the effect
\* again
ChangeInputs ==
    /\ mounted
    /\ changes < MaxChanges
    /\ \E s \in StartAngles, p \in Percentages, d \in Durations :
           /\ \/ s # startAngle /\ p = percentage /\ d = animationDuration
              \/ s = startAngle /\ p # percentage /\ d = animationDuration
              \/ s = startAngle /\ p = percentage /\ d # animationDuration
           /\ startAngle' = s
           /\ percentage' = p
           /\ animationDuration' = d
           /\ IF isChartVisible
                  THEN /\ timers' = ClearTimeout(timers) \cup {NewRun(now, s, p, d)}
                       /\ frames' = CancelFrame(frames, animationRef)
                  ELSE UNCHANGED <<timers, frames>>
    /\ changes' = changes + 1
    /\ UNCHANGED <<mounted, isChartVisible, observing, currentEndAngle, currentPercentage,
                   animationRef, now, progress, nextId, drawnStartAngle, drawnPercentage>>
    /\ UNCHANGED <<tickVars, domainVars, areaVars, viewVars>>

\* the component is removed: the cleanups of both effects
Unmount ==
    /\ mounted
    /\ mounted' = FALSE
    /\ observing' = FALSE
    /\ IF isChartVisible
           THEN /\ timers' = ClearTimeout(timers)
                /\ frames' = CancelFrame(frames, animationRef)
           ELSE UNCHANGED <<timers, frames>>
    /\ UNCHANGED <<startAngle, percentage, animationDuration, isChartVisible,
                   currentEndAngle, currentPercentage, animationRef, now, progress,
                   nextId, changes, drawnStartAngle, drawnPercentage>>
    /\ UNCHANGED <<tickVars, domainVars, areaVars, viewVars>>

\* the first clock reading at which a pending callback can run
TimerReady(t) == t.due
FrameReady(f) == f.at + ClockStep

\* Date.now() advances
Tick ==
    /\ \/ \E t \in timers : now < TimerReady(t) + MaxLag * ClockStep
       \/ \E f \in frames : now < FrameReady(f) + MaxLag * ClockStep
    /\ now' = now + ClockStep
    /\ UNCHANGED <<mounted, startAngle, percentage, animationDuration, isChartVisible,
                   observing, currentEndAngle, currentPercentage, animationRef, timers,
                   frames, progress, nextId, changes, drawnStartAngle, drawnPercentage>>
    /\ UNCHANGED <<tickVars, domainVars, areaVars, viewVars>>

RadialInit ==
    /\ mounted = TRUE
    /\ startAngle \in StartAngles
    /\ percentage \in Percentages
    /\ animationDuration \in Durations
    /\ isChartVisible = FALSE
    /\ observing = TRUE
    /\ currentEndAngle = startAngle
    /\ currentPercentage = Rat(0, 1)
    /\ animationRef = 0
    /\ timers = {}
    /\ frames = {}
    /\ now = 0
    /\ progress = Rat(0, 1)
    /\ nextId = 1
    /\ changes = 0
    /\ drawnStartAngle = startAngle
    /\ drawnPercentage = percentage

RadialIdle ==
    /\ mounted = FALSE
    /\ startAngle = Rat(90, 1)
    /\ percentage = Rat(0, 1)
    /\ animationDuration = Rat(0, 1)
    /\ isChartVisible = FALSE
    /\ observing = FALSE
    /\ currentEndAngle = Rat(90, 1)
    /\ currentPercentage = Rat(0, 1)
    /\ animationRef = 0
    /\ timers = {}
    /\ frames = {}
    /\ now = 0
    /\ progress = Rat(0, 1)
    /\ nextId = 1
    /\ changes = 0
    /\ drawnStartAngle = Rat(90, 1)
    /\ drawnPercentage = Rat(0, 1)

----------------------------------------------------------------------------
(* PieChartComponent: the active section *)

MaxSlices == 3

\* null, the value of hoverIndex while no slice is hovered
Null == -1

\* the data prop with n slices
PieData(n) == [i \in 1..n |-> [category |-> i, value |-> 10 * i]]

\* Mutant: the hovered index is passed on whatever showActiveSection is
ActiveIndex_Always(show, hover) == hover

\* activeIndex: showActiveSection ? hoverIndex : null
ActiveIndex(show, hover) == IF show THEN hover ELSE Null

\* data[activeIndex] is an item (indices of data start at 0)
HasItem(d, index) == (index + 1) \in DOMAIN d

\* {showActiveSection && innerRadius > 0 && activeIndex !== null && <Label/>}
LabelMounted(show, inner, active) == show /\ inner > 0 /\ active # Null

\* the content function of the label, given whether the view box has a
\* centre
LabelContent(d, active, hasCentre) ==
    IF hasCentre
        THEN (IF ~HasItem(d, active) THEN "null" ELSE "text")
    ELSE "undefined"

\* the centre label is drawn
CentreLabel(hasCentre) ==
    /\ LabelMounted(showActiveSection, innerRadius,
                    ActiveIndex(showActiveSection, hoverIndex))
    /\ LabelContent(pieData, ActiveIndex(showActiveSection, hoverIndex), hasCentre) = "text"

\* the mouse enters the slice with the given index: handleActiveSection,
\* which is attached as onMouseEnter only if showActiveSection
MouseEnter ==
    /\ \E index \in 0..(Len(pieData) - 1) :
           /\ hoverIndex' = IF showActiveSection THEN index ELSE hoverIndex
           /\ pieEvent' = [kind |-> "enter", index |-> index]
    /\ UNCHANGED <<pieData, showActiveSection, innerRadius>>
    /\ UNCHANGED <<tickVars, domainVars, areaVars, radialVars, flagVars, barVars>>

\* the mouse leaves the pie: handleUnActiveSection, attached as onMouseLeave
\* only if showActiveSection
MouseLeave ==
    /\ pieData # <<>>
    /\ hoverIndex' = IF showActiveSection THEN Null ELSE hoverIndex
    /\ pieEvent' = [kind |-> "leave", index |-> Null]
    /\ UNCHANGED <<pieData, showActiveSection, innerRadius>>
    /\ UNCHANGED <<tickVars, domainVars, areaVars, radialVars, flagVars, barVars>>

InnerRadii == {0, 60}

\* a render with one changed prop; the state hoverIndex is kept
PieRender ==
    /\ \E n \in 0..MaxSlices, show \in BOOLEAN, inner \in InnerRadii :
           /\ \/ n # Len(pieData) /\ show = showActiveSection /\ inner = innerRadius
              \/ n = Len(pieData) /\ show # showActiveSection /\ inner = innerRadius
              \/ n = Len(pieData) /\ show = showActiveSection /\ inner # innerRadius
           /\ pieData' = PieData(n)
           /\ showActiveSection' = show
           /\ innerRadius' = inner
    /\ pieEvent' = [kind |-> "render", index |-> Null]
    /\ UNCHANGED hoverIndex
    /\ UNCHANGED <<tickVars, domainVars, areaVars, radialVars, flagVars, barVars>>

PieInit ==
    /\ pieData \in {PieData(n) : n \in 0..MaxSlices}
    /\ showActiveSection \in BOOLEAN
    /\ innerRadius \in InnerRadii
    /\ hoverIndex = Null
    /\ pieEvent = [kind |-> "none", index |-> Null]

PieIdle ==
    /\ pieData = <<>>
    /\ showActiveSection = FALSE
    /\ innerRadius = 0
    /\ hoverIndex = Null
    /\ pieEvent = [kind |-> "none", index |-> Null]

----------------------------------------------------------------------------
(* AreaChartComponent: the constants derived from the variant *)

\* AreaChartVariant
AreaChartVariants == Variants

\* a prop that is not passed
NotPassed == "undefined"

\* variant = 'default' in the parameter list
VariantOrDefault(v) == IF v = NotPassed THEN "default" ELSE v

getCurveType(v) ==
    CASE v = "linear" -> "linear"
      [] v = "step" -> "step"
      [] OTHER -> "monotone"

isStackedVariant(v) == v = "stacked" \/ v = "stacked-expanded"

\* Mutant: prop || fallback, which also replaces an explicit false
Coalesce_Or(prop, fallback) == IF prop = "true" THEN TRUE ELSE fallback

\* prop ?? fallback for an optional boolean prop
Coalesce(prop, fallback) == IF prop = NotPassed THEN fallback ELSE prop = "true"

\* Object.keys(chartConfig)
ConfigKeys == <<"x", "y">>

\* the areas the memo chartAreas generates from chartConfig
GeneratedAreas(isStacked, curveType, shouldUseGradient) ==
    [i \in DOMAIN ConfigKeys |->
        [dataKey |-> ConfigKeys[i],
         fill |-> IF shouldUseGradient THEN "gradient" ELSE "color",
         stroke |-> "color",
         stackId |-> IF isStacked THEN "stack" ELSE NotPassed,
         type |-> curveType,
         fillOpacity |-> IF shouldUseGradient THEN <<1, 1>> ELSE <<2, 5>>]]

\* the areas prop when it is passed
PassedAreas ==
    <<[dataKey |-> "x", fill |-> "color", stroke |-> "color", stackId |-> NotPassed,
       type |-> NotPassed, fillOpacity |-> <<1, 2>>]>>

\* the render of AreaChartComponent up to chartAreas
DeriveFlags ==
    /\ fpc = "start"
    /\ \E v \in {VariantOrDefault(areaProps.variant)} :
       \E shouldUseGradient \in {Coalesce(areaProps.useGradient, v = "gradient")} :
           /\ areaFlags' =
                  [curveType |-> getCurveType(v),
                   isStacked |-> isStackedVariant(v),
                   shouldShowLegend |->
                       Coalesce(areaProps.showLegend,
                                v = "legend" \/ v = "stacked" \/ v = "stacked-expanded"),
                   shouldShowDots |-> Coalesce(areaProps.showDots, v = "interactive"),
                   shouldShowActiveDot |->
                       Coalesce(IF areaProps.showActiveDot = NotPassed
                                    THEN "true" ELSE areaProps.showActiveDot, TRUE),
                   shouldUseGradient |-> shouldUseGradient]
           /\ chartAreas' =
                  IF areaProps.areas # NotPassed
                      THEN PassedAreas
                  ELSE GeneratedAreas(isStackedVariant(v), getCurveType(v),
                                      shouldUseGradient)
    /\ fpc' = "done"
    /\ UNCHANGED areaProps
    /\ UNCHANGED <<tickVars, domainVars, areaVars, radialVars, pieVars, barVars>>

OptionalBooleans == {NotPassed, "true", "false"}

NoFlags ==
    [curveType |-> "monotone", isStacked |-> FALSE, shouldShowLegend |-> FALSE,
     shouldShowDots |-> FALSE, shouldShowActiveDot |-> FALSE,
     shouldUseGradient |-> FALSE]

FlagsInit ==
    /\ areaProps \in [variant : AreaChartVariants \cup {NotPassed},
                      areas : {NotPassed, "passed"},
                      showLegend : OptionalBooleans,
                      showDots : OptionalBooleans,
                      showActiveDot : OptionalBooleans,
                      useGradient : OptionalBooleans]
    /\ areaFlags = NoFlags
    /\ chartAreas = <<>>
    /\ fpc = "start"

FlagsIdle ==
    /\ areaProps = [variant |-> NotPassed, areas |-> NotPassed, showLegend |-> NotPassed,
                    showDots |-> NotPassed, showActiveDot |-> NotPassed,
                    useGradient |-> NotPassed]
    /\ areaFlags = NoFlags
    /\ chartAreas = <<>>
    /\ fpc = "idle"

----------------------------------------------------------------------------
(* BarChartComponent: layout and axes *)

\* BarChartVariant
BarChartVariants ==
    {"default", "horizontal", "multiple", "stacked", "stacked-legend", "label",
     "negative", "mixed", "interactive"}

\* In Recharts the layout 'vertical' draws horizontal bars
getDefaultLayout(v) == IF v = "horizontal" THEN "vertical" ELSE NotPassed

\* the constants isHorizontalBars and chartLayout
DeriveLayout ==
    /\ bpc = "start"
    /\ \E v \in {IF barProps.variant = NotPassed THEN "default" ELSE barProps.variant} :
           barAxes' = [barAxes EXCEPT
                          !.isHorizontalBars = v = "horizontal" \/ barProps.layout = "vertical",
                          !.chartLayout = IF barProps.layout = NotPassed
                                              THEN getDefaultLayout(v)
                                          ELSE barProps.layout]
    /\ bpc' = "derived"
    /\ UNCHANGED barProps
    /\ UNCHANGED <<tickVars, domainVars, areaVars, radialVars, pieVars, flagVars>>

\* renderXAxis: the type of the X axis (an axis with a dataKey and no type is
\* a category axis)
renderXAxis(isHorizontalBars) == IF isHorizontalBars THEN "number" ELSE "category"

\* renderYAxis: the type of the Y axis (an axis without a type is a number
\* axis), or null
renderYAxis(isHorizontalBars, v, yAxisHide, tickFormatter) ==
    IF isHorizontalBars
        THEN "category"
    ELSE IF yAxisHide # "true" /\ (v = "negative" \/ tickFormatter # NotPassed)
        THEN "number"
    ELSE "null"

\* the axes are rendered
RenderAxes ==
    /\ bpc = "derived"
    /\ \E v \in {IF barProps.variant = NotPassed THEN "default" ELSE barProps.variant} :
           barAxes' = [barAxes EXCEPT
                          !.xAxis = renderXAxis(barAxes.isHorizontalBars),
                          !.yAxis = renderYAxis(barAxes.isHorizontalBars, v,
                                                barProps.yAxisHide,
                                                barProps.tickFormatter)]
    /\ bpc' = "done"
    /\ UNCHANGED barProps
    /\ UNCHANGED <<tickVars, domainVars, areaVars, radialVars, pieVars, flagVars>>

NoAxes ==
    [isHorizontalBars |-> FALSE, chartLayout |-> NotPassed, xAxis |-> "null",
     yAxis |-> "null"]

BarInit ==
    /\ barProps \in [variant : BarChartVariants \cup {NotPassed},
                     layout : {NotPassed, "vertical", "horizontal"},
                     yAxisHide : OptionalBooleans,
                     tickFormatter : {NotPassed, "passed"}]
    /\ barAxes = NoAxes
    /\ bpc = "start"

BarIdle ==
    /\ barProps = [variant |-> NotPassed, layout |-> NotPassed, yAxisHide |-> NotPassed,
                   tickFormatter |-> NotPassed]
    /\ barAxes = NoAxes
    /\ bpc = "idle"

ViewsIdle == PieIdle /\ FlagsIdle /\ BarIdle

----------------------------------------------------------------------------
(* Specifications *)

\* calculateYAxisTicks (and getNiceStepSize, which it calls) on every input
Init == TicksInit /\ DomainIdle /\ AreaIdle /\ RadialIdle /\ ViewsIdle

Next ==
    \/ EarlyReturn
    \/ Begin
    \/ LoopBody
    \/ LoopExit
    \/ ExtraTick

Spec == Init /\ [][Next]_vars

\* calculateNiceYDomain on every input
InitDomain == TicksIdle /\ DomainInit /\ AreaIdle /\ RadialIdle /\ ViewsIdle

NextDomain ==
    \/ UseExplicitDomain
    \/ ScanData
    \/ ReturnFallback
    \/ PadDomain
    \/ RoundDomain

SpecDomain == InitDomain /\ [][NextDomain]_vars

\* the normalization of the area chart, applied once and once more
InitArea == TicksIdle /\ DomainIdle /\ AreaInit /\ RadialIdle /\ ViewsIdle

NextArea ==
    \/ Normalize
    \/ NormalizeAgain

SpecArea == InitArea /\ [][NextArea]_vars

\* the radial chart from its mount on
InitRadial == TicksIdle /\ DomainIdle /\ AreaIdle /\ RadialInit /\ ViewsIdle

NextRadial ==
    \/ Intersect
    \/ TimerFire
    \/ Frame
    \/ ChangeInputs
    \/ Unmount
    \/ Tick

SpecRadial == InitRadial /\ [][NextRadial]_vars

\* the same with the scheduling of the browser: the clock advances while a
\* callback is pending, and a timer or animation frame that is due and not
\* cancelled is run
SpecRadialLive ==
    /\ InitRadial
    /\ [][NextRadial]_vars
    /\ WF_vars(Tick)
    /\ WF_vars(TimerFire)
    /\ WF_vars(Frame)

\* the pie chart under mouse events and renders
InitPie == TicksIdle /\ DomainIdle /\ AreaIdle /\ RadialIdle /\ PieInit /\ FlagsIdle /\ BarIdle

NextPie ==
    \/ MouseEnter
    \/ MouseLeave
    \/ PieRender

SpecPie == InitPie /\ [][NextPie]_vars

\* the constants the area chart derives from its props, for every props
InitFlags == TicksIdle /\ DomainIdle /\ AreaIdle /\ RadialIdle /\ PieIdle /\ FlagsInit /\ BarIdle

NextFlags == DeriveFlags

SpecFlags == InitFlags /\ [][NextFlags]_vars

\* the layout and the axes of the bar chart, for every props
InitBar == TicksIdle /\ DomainIdle /\ AreaIdle /\ RadialIdle /\ PieIdle /\ FlagsIdle /\ BarInit

NextBar ==
    \/ DeriveLayout
    \/ RenderAxes

SpecBar == InitBar /\ [][NextBar]_vars

----------------------------------------------------------------------------
(* Properties of calculateYAxisTicks, checked under Spec *)

Min == domain[1]
Max == domain[2]
Range == domain[2] - domain[1]
TargetSteps == tickCount - 1

\* getNiceStepSize has been called and its result is in step
StepChosen == pc \in {"loop", "extra", "done"} /\ tickCount >= 2

\* C1: for every domain with min <= max and every tickCount >= 1 the returned
\* sequence has at least one element.
C1_AtLeastOneTick ==
    (pc = "done" /\ Min <= Max /\ tickCount >= 1) => Len(ticks) >= 1

\* C2: the ticks are strictly ascending and every one of them is >= the
\* domain min, although the walk starts at niceMin, which may be below min.
C2_AscendingFromMin ==
    /\ \A i \in 1..(Len(ticks) - 1) : ticks[i] < ticks[i + 1]
    /\ \A i \in 1..Len(ticks) : ticks[i] >= Min

\* a finished run of at least two ticks whose walk started below min
C2_Witness ==
    /\ pc = "done"
    /\ Len(ticks) >= 2
    /\ IsFinite(step) /\ step > 0
    /\ (Min \div step) * step < Min

\* C3: for tickCount >= 1 at most 2 * tickCount + 1 ticks are returned.
C3_LengthBound ==
    tickCount >= 1 => Len(ticks) <= 2 * tickCount + 1

\* a finished run that walked tickCount ticks and appended the extra one
C3_Witness ==
    /\ pc = "done"
    /\ tickCount >= 2
    /\ Len(ticks) = tickCount + 1

\* C4: for tickCount <= 1 the result is the one-element sequence [min] and
\* getNiceStepSize is not called.
C4_SingleTick ==
    (pc = "done" /\ tickCount <= 1) => (ticks = <<Min>> /\ stepCalls = 0)

C4_Witness ==
    /\ pc = "done"
    /\ tickCount = 1
    /\ Min < Max
    /\ ticks = <<Min>>

\* C5: after the walk exactly one tick, lastTick + step, is appended if and
\* only if 0 < dataMax - lastTick < 0.1 * step, and otherwise none; so only
\* the final tick can exceed the domain max.
C5_ExtraTick ==
    (pc = "done" /\ tickCount >= 2) =>
        LET close == /\ lastTick # NaN
                     /\ dataMax # NegInfinity
                     /\ dataMax - lastTick > 0
                     /\ 10 * (dataMax - lastTick) < step
        IN  /\ close =>
                /\ Len(ticks) >= 2
                /\ ticks[Len(ticks)] = lastTick + step
                /\ ticks[Len(ticks) - 1] = lastTick
            /\ ~close =>
                \/ lastTick = NaN /\ ticks = <<>>
                \/ lastTick # NaN /\ Len(ticks) >= 1 /\ ticks[Len(ticks)] = lastTick
            /\ \A i \in 1..(Len(ticks) - 1) : ticks[i] <= Max
            /\ (Len(ticks) >= 1 /\ ticks[Len(ticks)] > Max) => close

\* a finished run whose final tick is the appended one, above the domain max
C5_Witness ==
    /\ pc = "done"
    /\ tickCount >= 2
    /\ Len(ticks) >= 2
    /\ ticks[Len(ticks)] > Max
    /\ ticks[Len(ticks) - 1] = lastTick

\* C6: for max > min and tickCount >= 2 the walk yields exactly the integer
\* multiples of step = getNiceStepSize(max - min, tickCount - 1) that lie in
\* [min, max], ascending and step apart; (0, 100), 6, 97 gives
\* [0, 20, 40, 60, 80, 100].
C6_WalkIsMultiples ==
    /\ (pc = "extra" /\ Max > Min /\ tickCount >= 2) =>
          LET lo == 0 - ((0 - Min) \div step)
              hi == Max \div step
          IN  /\ step = getNiceStepSize(Max - Min, tickCount - 1)
              /\ Len(ticks) = (IF hi >= lo THEN hi - lo + 1 ELSE 0)
              /\ \A i \in 1..Len(ticks) : ticks[i] = (lo + i - 1) * step
    /\ (pc = "done" /\ domain = <<0, 100 * Unit>> /\ tickCount = 6
            /\ dataMax = 97 * Unit) =>
          ticks = <<0, 20 * Unit, 40 * Unit, 60 * Unit, 80 * Unit, 100 * Unit>>

\* the walk of the domain (0, 100) with tickCount 6 has ended with 6 ticks
C6_Witness ==
    /\ pc = "extra"
    /\ domain = <<0, 100 * Unit>>
    /\ tickCount = 6
    /\ Len(ticks) = 6

----------------------------------------------------------------------------
(* Properties of getNiceStepSize, checked under Spec on the call            *)
(* getNiceStepSize(max - min, tickCount - 1) of calculateYAxisTicks         *)

\* C7 as stated: getNiceStepSize(100, 5) returns 50.
C7_Returns50 ==
    (StepChosen /\ Range = 100 * Unit /\ TargetSteps = 5) => step = 50 * Unit

\* C7 amended: getNiceStepSize(100, 5) returns 20.
C7_Returns20 ==
    (StepChosen /\ Range = 100 * Unit /\ TargetSteps = 5) => step = 20 * Unit

C7_Witness ==
    StepChosen /\ Range = 100 * Unit /\ TargetSteps = 5 /\ step = 20 * Unit

\* C8: for range > 0 and targetSteps >= 2 the result is n * 10^k with n in
\* {1, 2, 5, 10}, where 10^k is the power of ten with
\* 10^k <= range / targetSteps < 10^(k+1) and n is picked by the thresholds
\* normalized <= 1 -> 1, <= 2 -> 2, <= 5 -> 5, else 10.
C8_NiceForm ==
    (StepChosen /\ Range > 0 /\ TargetSteps >= 2) =>
        \E k \in 0..MaxExp : \E n \in {1, 2, 5, 10} :
            LET m == Pow10(k) IN
            /\ step = n * m
            /\ m * TargetSteps <= Range
            /\ Range < 10 * m * TargetSteps
            /\ (n = 1) = (Range <= m * TargetSteps)
            /\ (n = 2) = (m * TargetSteps < Range /\ Range <= 2 * m * TargetSteps)
            /\ (n = 5) = (2 * m * TargetSteps < Range /\ Range <= 5 * m * TargetSteps)
            /\ (n = 10) = (5 * m * TargetSteps < Range)

\* a call with targetSteps >= 2 whose normalized step fell in (2, 5]
C8_Witness ==
    /\ StepChosen /\ Range > 0 /\ TargetSteps >= 2
    /\ step \in {5 * m : m \in Magnitudes}

\* C9 as stated: targetSteps / 2 <= range / step <= targetSteps * 2.
C9_WithinHalfAndDouble ==
    (StepChosen /\ Range > 0 /\ TargetSteps >= 2) =>
        /\ TargetSteps * step <= 2 * Range
        /\ Range <= 2 * TargetSteps * step

\* C9 amended: targetSteps * 2 / 5 <= range / step <= targetSteps * 2.
C9_WithinTwoFifthsAndDouble ==
    (StepChosen /\ Range > 0 /\ TargetSteps >= 2) =>
        /\ 2 * TargetSteps * step <= 5 * Range
        /\ Range <= 2 * TargetSteps * step

\* a call whose result is more than twice the raw step
C9_Witness ==
    /\ StepChosen /\ Range > 0 /\ TargetSteps >= 2
    /\ TargetSteps * step > 2 * Range

----------------------------------------------------------------------------
(* Properties of calculateNiceYDomain, checked under SpecDomain *)

\* C10: for every non-empty dataset and non-empty key set, all-negative
\* values included, the returned domain has niceMin <= niceMax.
C10_DomainOrdered ==
    (dpc = "done" /\ ~IsExplicitDomain(cfgDomain) /\ Len(data) >= 1 /\ Len(dataKeys) >= 1)
        => yDomain[1] <= yDomain[2]

----------------------------------------------------------------------------
(* Claims about calculateNiceYDomain and LineChartComponent.yDomain,
   checked under SpecDomain *)

\* C11: the padding step computes paddedMin = max(0, min - range * padding)
\* and paddedMax = max + range * padding with range = max - min, so
\* paddedMin >= 0 for every scanned (min, max) and every padding; min 1,
\* max 10, padding 0.1 give (0.1, 10.9).
C11_PaddedBounds ==
    dpc = "padded" =>
        LET range == scanMax - scanMin
            low == scanMin - (range \div Unit) * padding
        IN  /\ range % Unit = 0
            /\ paddedMin >= 0
            /\ paddedMin = (IF low >= 0 THEN low ELSE 0)
            /\ paddedMax = scanMax + (range \div Unit) * padding
            /\ (scanMin = Unit /\ scanMax = 10 * Unit /\ padding = Unit \div 10)
                   => (paddedMin = Unit \div 10 /\ paddedMax = (109 * Unit) \div 10)

C11_Witness ==
    /\ dpc = "padded"
    /\ scanMin = Unit
    /\ scanMax = 10 * Unit
    /\ padding = Unit \div 10
    /\ paddedMin = Unit \div 10
    /\ paddedMax = (109 * Unit) \div 10

\* C12: when yAxisConfig gives no padding, the domain is padded with the
\* fraction 0.15.
C12_DefaultPadding ==
    (dpc = "padded" /\ cfgPadding = Undefined) =>
        /\ padding = (15 * Unit) \div 100
        /\ paddedMax = scanMax + ((scanMax - scanMin) \div Unit) * ((15 * Unit) \div 100)

C12_Witness ==
    /\ dpc = "padded"
    /\ cfgPadding = Undefined
    /\ scanMin = Unit
    /\ scanMax = 10 * Unit
    /\ paddedMax = (1135 * Unit) \div 100

\* C13: the scan yields the least and the greatest value over all points and
\* keys, a missing or non-numeric value counting as 0; for a non-empty
\* dataset and key list min <= max; the points {a:1,b:5}, {a:10,b:2} with
\* keys a, b give (1, 10).
C13_ScanIsMinMax ==
    (dpc = "scanned" /\ Len(data) >= 1 /\ Len(dataKeys) >= 1) =>
        LET seen == {IF data[i][dataKeys[j]].kind = "number"
                         THEN data[i][dataKeys[j]].v ELSE 0 :
                     i \in 1..Len(data), j \in 1..Len(dataKeys)}
        IN  /\ scanMin \in seen
            /\ scanMax \in seen
            /\ \A v \in seen : scanMin <= v /\ v <= scanMax
            /\ scanMin <= scanMax
            /\ (data = <<[a |-> Num(1), b |-> Num(5)], [a |-> Num(10), b |-> Num(2)]>>
                    /\ dataKeys = <<"a", "b">>)
                   => (scanMin = Unit /\ scanMax = 10 * Unit)

C13_Witness ==
    /\ dpc = "scanned"
    /\ data = <<[a |-> Num(1), b |-> Num(5)], [a |-> Num(10), b |-> Num(2)]>>
    /\ dataKeys = <<"a", "b">>
    /\ scanMin = Unit
    /\ scanMax = 10 * Unit

C15_RoundedToTier ==
    (dpc = "done" /\ ~IsExplicitDomain(cfgDomain) /\ scanMin # Infinity) =>
        LET Tier(v) == CASE v <= 100 * Unit -> 10 * Unit
                         [] v > 100 * Unit /\ v <= 1000 * Unit -> 100 * Unit
                         [] v > 1000 * Unit /\ v <= 10000 * Unit -> 500 * Unit
                         [] v > 10000 * Unit /\ v <= 50000 * Unit -> 1000 * Unit
                         [] v > 50000 * Unit -> 5000 * Unit
            niceMin == yDomain[1]
            niceMax == yDomain[2]
        IN  /\ niceMin % Tier(paddedMin) = 0
            /\ niceMin <= paddedMin
            /\ paddedMin < niceMin + Tier(paddedMin)
            /\ niceMax % Tier(paddedMax) = 0
            /\ niceMax >= paddedMax
            /\ paddedMax > niceMax - Tier(paddedMax)

C15_Witness ==
    /\ dpc = "done"
    /\ scanMin = 10 * Unit
    /\ scanMax = 9900 * Unit
    /\ paddedMin = 0
    /\ paddedMax > 10000 * Unit
    /\ yDomain[1] = 0
    /\ yDomain[2] = 12000 * Unit

----------------------------------------------------------------------------
(* Claims about AreaChartComponent.normalizedData, checked under SpecArea *)

\* C16: for the variant 'stacked-expanded' the total of a point is the sum of
\* its value keys, a missing or non-numeric value counting as 0; if the total
\* is > 0 every value key becomes value / total * 100 and the value keys sum
\* to 100 ({x:1, y:3} becomes {x:25, y:75}); if the total is 0 the point's
\* values are unchanged.
C16_Percentages ==
    (apc = "once" /\ IsExpanded(variant)) =>
        \A i \in 1..Len(areaData) :
            LET in == heap[areaData[i]]
                out == heap[normalizedData[i]]
                Val(x) == IF x.kind = "number" THEN x.v
                          ELSE IF x = StringValue("3") THEN <<3, 1>>
                          ELSE <<0, 1>>
                n == Len(areaKeys)
                total == IF n = 0 THEN <<0, 1>>
                         ELSE IF n = 1 THEN Val(in[areaKeys[1]])
                         ELSE RatAdd(Val(in[areaKeys[1]]), Val(in[areaKeys[2]]))
                outSum == IF n = 0 THEN <<0, 1>>
                          ELSE IF n = 1 THEN out[areaKeys[1]].v
                          ELSE RatAdd(out[areaKeys[1]].v, out[areaKeys[2]].v)
            IN  /\ n <= 2
                /\ total[1] > 0 =>
                       /\ \A j \in 1..n :
                              /\ out[areaKeys[j]].kind = "number"
                              /\ RatMul(out[areaKeys[j]].v, total)
                                     = RatMul(Val(in[areaKeys[j]]), <<100, 1>>)
                       /\ outSum = <<100, 1>>
                /\ total[1] = 0 => out = in
                /\ (areaKeys = <<"x", "y">> /\ in.x = NumberValue(1, 1)
                        /\ in.y = NumberValue(3, 1))
                       => (out.x = NumberValue(25, 1) /\ out.y = NumberValue(75, 1))

C16_Witness ==
    /\ apc = "once"
    /\ IsExpanded(variant)
    /\ areaKeys = <<"x", "y">>
    /\ Len(areaData) = 2
    /\ heap[areaData[1]].x = NumberValue(1, 1)
    /\ heap[areaData[1]].y = NumberValue(3, 1)
    /\ heap[normalizedData[1]].x = NumberValue(25, 1)
    /\ heap[normalizedData[1]].y = NumberValue(75, 1)
    /\ heap[areaData[2]].x = NumberValue(0, 1)
    /\ heap[areaData[2]].y = NoValue
    /\ heap[normalizedData[2]] = heap[areaData[2]]

\* C17: the normalization returns a new sequence of new points and leaves
\* the input sequence and its points as they were; every field of an output
\* point that is not a value key equals the input point's field.
C17_InputUntouched ==
    [][(apc = "start" /\ apc' = "once" /\ IsExpanded(variant)) =>
           /\ areaData' = areaData
           /\ Len(normalizedData') = Len(areaData)
           /\ \A i \in 1..Len(areaData) :
                  /\ heap'[areaData[i]] = heap[areaData[i]]
                  /\ \A k \in 1..Len(areaData) : normalizedData'[i] # areaData[k]
                  /\ \A k \in 1..Len(areaData) :
                         k # i => normalizedData'[i] # normalizedData'[k]
                  /\ \A f \in DOMAIN heap[areaData[i]] :
                         f \notin {areaKeys[j] : j \in 1..Len(areaKeys)}
                             => heap'[normalizedData'[i]][f] = heap[areaData[i]][f]]_vars

C17_Witness ==
    /\ apc = "once"
    /\ IsExpanded(variant)
    /\ areaKeys = <<"x">>
    /\ Len(areaData) = 2
    /\ normalizedData[1] # areaData[1]
    /\ heap[areaData[1]].x = NumberValue(3, 1)
    /\ heap[normalizedData[1]].x = NumberValue(100, 1)
    /\ heap[normalizedData[1]].y = heap[areaData[1]].y
    /\ heap[normalizedData[1]].y = NumberValue(2, 1)
    /\ heap[normalizedData[1]].month = StringValue("Jan")

\* C18: normalizing the output of the normalization gives the same points
\* again, for every dataset.
C18_Idempotent ==
    (apc = "twice" /\ IsExpanded(variant)) =>
        /\ Len(normalizedData) = Len(areaData)
        /\ \A i \in 1..Len(areaData) : heap[normalizedData[i]] = heap[areaData[i]]

C18_Witness ==
    /\ apc = "twice"
    /\ IsExpanded(variant)
    /\ areaKeys = <<"x", "y">>
    /\ Len(areaData) = 1
    /\ heap[1].x = NumberValue(1, 1)
    /\ heap[1].y = NumberValue(2, 1)
    /\ heap[areaData[1]].x = NumberValue(100, 3)
    /\ heap[normalizedData[1]].x = NumberValue(100, 3)
    /\ heap[normalizedData[1]].y = NumberValue(200, 3)
    /\ normalizedData[1] # areaData[1]

----------------------------------------------------------------------------
(* Claims about RadialChartShapeComponent, checked under SpecRadial and
   SpecRadialLive *)

\* C19 (as stated): in every reachable state the progress is within [0, 1],
\* currentEndAngle lies between startAngle and startAngle + 3.6 *
\* data.percentage, and currentPercentage between 0 and data.percentage, of
\* the current inputs.
C19_BoundedByCurrentInputs ==
    /\ RatLe(<<0, 1>>, progress)
    /\ RatLe(progress, <<1, 1>>)
    /\ RatLe(startAngle, currentEndAngle)
    /\ RatLe(currentEndAngle, RatAdd(startAngle, RatMul(<<18, 5>>, percentage)))
    /\ RatLe(<<0, 1>>, currentPercentage)
    /\ RatLe(currentPercentage, percentage)

\* C19 (amended): in every reachable state the progress is within [0, 1] and
\* the displayed values are bounded by the inputs of the run that drew them
\* (the inputs at mount while no run has drawn, the current inputs while no
\* input has changed): currentEndAngle lies between that startAngle and that
\* startAngle + 3.6 * percentage, and currentPercentage between 0 and that
\* percentage rounded up to the next integer.
C19_BoundedByDrawnInputs ==
    /\ RatLe(<<0, 1>>, progress)
    /\ RatLe(progress, <<1, 1>>)
    /\ RatLe(drawnStartAngle, currentEndAngle)
    /\ RatLe(currentEndAngle, RatAdd(drawnStartAngle, RatMul(<<18, 5>>, drawnPercentage)))
    /\ RatLe(<<0, 1>>, currentPercentage)
    /\ RatLe(currentPercentage,
             <<0 - ((0 - drawnPercentage[1]) \div drawnPercentage[2]), 1>>)
    /\ changes = 0 => (drawnStartAngle = startAngle /\ drawnPercentage = percentage)

C19_Witness ==
    /\ mounted
    /\ isChartVisible
    /\ changes = 1
    /\ progress = <<2, 3>>
    /\ drawnPercentage = <<13, 5>>
    /\ currentPercentage = <<3, 1>>
    /\ percentage = <<0, 1>>
    /\ drawnStartAngle = <<90, 1>>
    /\ startAngle = <<90, 1>>
    /\ RatLt(startAngle, currentEndAngle)

\* C20: once the chart is visible, if the inputs stay as they are and the
\* chart stays mounted, the animation eventually settles with currentEndAngle
\* = targetEndAngle and currentPercentage = data.percentage exactly and
\* nothing pending; from a settled state nothing is requested again while
\* the inputs stay as they are.  (The inputs change at most MaxChanges
\* times, so in every behaviour they stay as they are from some state on.)
C20_EventuallySettled ==
    /\ (isChartVisible /\ mounted)
           ~> \/ ~mounted
              \/ /\ timers = {}
                 /\ frames = {}
                 /\ currentEndAngle = RatAdd(startAngle, RatMul(<<18, 5>>, percentage))
                 /\ currentPercentage = percentage
    /\ [][(/\ isChartVisible /\ mounted /\ timers = {} /\ frames = {}
           /\ mounted'
           /\ <<startAngle, percentage, animationDuration>>'
                  = <<startAngle, percentage, animationDuration>>)
              => (/\ timers' = {} /\ frames' = {}
                  /\ currentEndAngle' = currentEndAngle
                  /\ currentPercentage' = currentPercentage)]_vars

C20_Witness ==
    /\ mounted
    /\ isChartVisible
    /\ timers = {}
    /\ frames = {}
    /\ progress = <<1, 1>>
    /\ animationDuration = <<3, 10>>
    /\ percentage = <<13, 5>>
    /\ currentPercentage = <<13, 5>>
    /\ currentEndAngle = <<2484, 25>>

\* C21: on teardown and on a change of startAngle, data.percentage or
\* animationDuration the pending start-delay timer and the pending animation
\* frame of the run in progress are cancelled: at most one callback is
\* pending at any time and it belongs to the run of the current inputs of a
\* mounted, visible chart; nothing is pending after teardown; right after a
\* change or teardown no frame is pending and the only timer is the one of
\* the new run; and no step after teardown changes the component's state.
C21_CancelledOnChange ==
    /\ [](/\ Cardinality(timers) + Cardinality(frames) <= 1
          /\ \A c \in timers \cup frames :
                 /\ mounted
                 /\ isChartVisible
                 /\ c.startEndAngle = startAngle
                 /\ c.endPercentage = percentage
                 /\ c.endEndAngle = RatAdd(startAngle, RatMul(<<18, 5>>, percentage))
                 /\ c.duration = RatMul(animationDuration, <<1000, 1>>)
          /\ \A f \in frames : f.id = animationRef
          /\ ~mounted => (timers = {} /\ frames = {}))
    /\ [][(changes' # changes \/ mounted' # mounted)
              => /\ frames' = {}
                 /\ \A t \in timers' : mounted' /\ t.startTime = now /\ t.due = now + 100]_vars
    /\ [][~mounted
              => <<currentEndAngle, currentPercentage, isChartVisible, animationRef>>'
                     = <<currentEndAngle, currentPercentage, isChartVisible, animationRef>>]_vars

\* an input changed in the middle of a run: its frame was cancelled and only
\* the timer of the new run is pending
C21_Witness ==
    /\ mounted
    /\ isChartVisible
    /\ changes = 1
    /\ animationRef # 0
    /\ progress = <<2, 3>>
    /\ frames = {}
    /\ Cardinality(timers) = 1

\* C22: as long as the chart has not become visible no animation run is
\* started, and the chart shows its start: no callback is pending,
\* currentEndAngle = startAngle and currentPercentage = 0.  (Violated:
\* currentEndAngle is initialised from startAngle at mount only, so a
\* startAngle that changes before the chart is visible leaves
\* currentEndAngle at the mount-time angle.)
C22_HiddenShowsStart ==
    (mounted /\ ~isChartVisible)
        => /\ timers = {}
           /\ frames = {}
           /\ currentEndAngle = startAngle
           /\ currentPercentage = <<0, 1>>

----------------------------------------------------------------------------
(* Claims about PieChartComponent (SpecPie), the constants of
   AreaChartComponent (SpecFlags) and BarChartComponent (SpecBar), and
   further claims about the line, area and radial charts *)

\* C23: while showActiveSection is false activeIndex is null and no step
\* changes hoverIndex; while it is true activeIndex is the index of the
\* slice entered last right after a mouse-enter and null right after a
\* mouse-leave; the centre label is drawn only if showActiveSection,
\* innerRadius > 0, activeIndex is not null and data[activeIndex] exists.
C23_ActiveSection ==
    /\ [](/\ ~showActiveSection
             => ActiveIndex(showActiveSection, hoverIndex) = Null
          /\ (showActiveSection /\ pieEvent.kind = "enter")
             => ActiveIndex(showActiveSection, hoverIndex) = pieEvent.index
          /\ (showActiveSection /\ pieEvent.kind = "leave")
             => ActiveIndex(showActiveSection, hoverIndex) = Null
          /\ \A hasCentre \in BOOLEAN :
                 CentreLabel(hasCentre)
                     => /\ showActiveSection
                        /\ innerRadius > 0
                        /\ ActiveIndex(showActiveSection, hoverIndex) \in 0..(Len(pieData) - 1))
    /\ [][~showActiveSection => hoverIndex' = hoverIndex]_vars

\* the third slice of a donut was entered and its label is drawn
C23_Witness ==
    /\ showActiveSection
    /\ innerRadius > 0
    /\ pieEvent = [kind |-> "enter", index |-> 2]
    /\ hoverIndex = 2
    /\ CentreLabel(TRUE)

\* C24: every flag of the area chart is the passed prop when one is passed
\* (true or false) and the default of the variant otherwise: showLegend for
\* legend, stacked and stacked-expanded, showDots for interactive,
\* useGradient for gradient; the curve type is linear for linear, step for
\* step and monotone for every other variant; generated areas have the
\* stackId 'stack' exactly for stacked and stacked-expanded; a variant that
\* is not passed is 'default'.
C24_FlagsResolved ==
    fpc = "done" =>
        LET v == IF areaProps.variant = "undefined" THEN "default" ELSE areaProps.variant
            Resolved(prop, variants) ==
                IF prop = "true" THEN TRUE
                ELSE IF prop = "false" THEN FALSE
                ELSE v \in variants
        IN  /\ areaFlags.shouldShowLegend
                   = Resolved(areaProps.showLegend, {"legend", "stacked", "stacked-expanded"})
            /\ areaFlags.shouldShowDots = Resolved(areaProps.showDots, {"interactive"})
            /\ areaFlags.shouldUseGradient = Resolved(areaProps.useGradient, {"gradient"})
            /\ (v = "linear") => areaFlags.curveType = "linear"
            /\ (v = "step") => areaFlags.curveType = "step"
            /\ (v \notin {"linear", "step"}) => areaFlags.curveType = "monotone"
            /\ areaProps.areas = "undefined"
                   => /\ chartAreas # <<>>
                      /\ \A i \in DOMAIN chartAreas :
                             /\ (chartAreas[i].stackId = "stack")
                                    <=> (v \in {"stacked", "stacked-expanded"})
                             /\ chartAreas[i].type = areaFlags.curveType

\* a legend variant with the legend switched off and the dots switched on
C24_Witness ==
    /\ fpc = "done"
    /\ areaProps.variant = "legend"
    /\ areaProps.showLegend = "false"
    /\ areaProps.showDots = "true"
    /\ areaProps.useGradient = "undefined"
    /\ areaProps.areas = "undefined"
    /\ ~areaFlags.shouldShowLegend
    /\ areaFlags.shouldShowDots
    /\ ~areaFlags.shouldUseGradient
    /\ chartAreas[1].stackId = "undefined"

\* C25: the axes of the bar chart agree with the layout handed to the chart:
\* the numeric X axis with the category Y axis is rendered if and only if
\* the effective layout (the layout prop if passed, else the default of the
\* variant) is 'vertical'.  (Violated: the variant 'horizontal' with the
\* layout prop 'horizontal' renders these axes in a chart of layout
\* 'horizontal'.)
C25_AxesAgreeWithLayout ==
    bpc = "done" =>
        ((barAxes.xAxis = "number" /\ barAxes.yAxis = "category")
             <=> (barAxes.chartLayout = "vertical"))

\* C26: for every domain, every tickCount >= 2 and every dataMax the tick
\* walk has stopped, when it is left, because the walk value exceeded max
\* or because 2 * tickCount ticks were accumulated.  (Violated: for min =
\* max and for min > max the walk value is NaN, which is not above max, and
\* no tick was accumulated.)
C26_WalkStopsAboveMaxOrAtCap ==
    (pc \in {"extra", "done"} /\ tickCount >= 2)
        => (Gt(currentTick, Max) \/ Len(ticks) >= 2 * tickCount)

\* C27: for a non-empty dataset whose plotted values (the numeric values
\* under the keys) are all >= 0 and a padding >= 0, the domain computed for
\* 'auto' contains every plotted value: niceMin <= v <= niceMax.
C27_DomainContainsData ==
    LET plotted == {data[i][dataKeys[j]].v :
                        <<i, j>> \in {p \in (1..Len(data)) \X (1..Len(dataKeys)) :
                                          data[p[1]][dataKeys[p[2]]].kind = "number"}}
    IN  (/\ dpc = "done"
         /\ cfgDomain.kind # "explicit"
         /\ Len(data) >= 1
         /\ padding >= 0
         /\ \A v \in plotted : v >= 0)
            => \A v \in plotted : yDomain[1] <= v /\ v <= yDomain[2]

\* the points {a: 1, b: 5}, {a: 10, b: 2} with the default padding get the
\* domain [0, 20]
C27_Witness ==
    /\ dpc = "done"
    /\ cfgDomain.kind = "auto"
    /\ cfgPadding = Undefined
    /\ data = <<[a |-> Num(1), b |-> Num(5)], [a |-> Num(10), b |-> Num(2)]>>
    /\ dataKeys = <<"a", "b">>
    /\ yDomain = <<0, 20 * Unit>>

\* C28: for every variant other than 'stacked-expanded' the data handed to
\* the chart is the data prop itself, the same points with the same values:
\* the memo returns the reference it was given and no point is written or
\* created.
C28_DataPassedThrough ==
    /\ []((apc \in {"once", "twice"} /\ variant # "stacked-expanded")
              => normalizedData = areaData)
    /\ [][variant # "stacked-expanded"
              => (heap' = heap /\ normalizedData' = areaData')]_vars

\* a gradient chart with the point {x: 1, y: 3}
C28_Witness ==
    /\ apc = "once"
    /\ variant = "gradient"
    /\ areaKeys = <<"x", "y">>
    /\ Len(heap) = 1
    /\ areaData = <<1>>
    /\ normalizedData = <<1>>
    /\ heap[1].x = NumberValue(1, 1)
    /\ heap[1].y = NumberValue(3, 1)

\* C29: within one animation run with data.percentage >= 0, currentEndAngle
\* and currentPercentage do not decrease from one redraw to the next.  The
\* run is the first one (no input has changed), and a redraw of it has
\* happened (progress > 0).  (Violated: the redraws before the last show the
\* rounded percentage, the last one the percentage itself, 3 and then 2.6.)
C29_NeverBackwards ==
    [][(changes = 0 /\ changes' = 0 /\ RatLt(<<0, 1>>, progress))
           => /\ RatLe(currentEndAngle, currentEndAngle')
              /\ RatLe(currentPercentage, currentPercentage')]_vars

\* C30: when startAngle, data.percentage or animationDuration changes while
\* the chart is visible, also after a run has settled, the values on display
\* stay, the pending frame is dropped and one run is scheduled: its first
\* frame is requested no earlier than 100 ms after the change, and each of
\* its redraws displays the values of the progress from the new startAngle
\* and from 0 to the new targets, whatever was on display.  Only a redraw
\* changes the values on display.
C30_RestartsFromStart ==
    /\ [](\A f \in frames : f.at >= f.startTime + 100)
    /\ [][LET Redraw == /\ frames' # frames
                        /\ timers' = timers
                        /\ changes' = changes
                        /\ mounted' = mounted
              target == RatAdd(startAngle, RatMul(<<18, 5>>, percentage))
          IN  /\ (changes' # changes /\ isChartVisible)
                     => /\ currentEndAngle' = currentEndAngle
                        /\ currentPercentage' = currentPercentage
                        /\ frames' = {}
                        /\ timers' = {[startTime |-> now,
                                       due |-> now + 100,
                                       duration |-> RatMul(animationDuration', <<1000, 1>>),
                                       startEndAngle |-> startAngle',
                                       endEndAngle |-> RatAdd(startAngle',
                                                              RatMul(<<18, 5>>, percentage')),
                                       endPercentage |-> percentage']}
              /\ ~Redraw => /\ currentEndAngle' = currentEndAngle
                            /\ currentPercentage' = currentPercentage
              /\ Redraw
                     => \E e \in {RatSub(<<1, 1>>,
                                         RatMul(RatMul(q, q), RatMul(q, q))) :
                                  q \in {RatSub(<<1, 1>>, progress')}} :
                            IF RatLt(progress', <<1, 1>>)
                                THEN /\ currentEndAngle'
                                            = RatAdd(startAngle,
                                                     RatMul(RatSub(target, startAngle), e))
                                     /\ currentPercentage'
                                            = MathRound(RatMul(percentage, e))
                                ELSE /\ currentEndAngle' = target
                                     /\ currentPercentage' = percentage]_vars

\* the percentage changed from 50 to 2.6 after the run to 50 had settled:
\* 50 stays on display while the timer of the new run is pending
C30_Witness ==
    /\ mounted
    /\ isChartVisible
    /\ changes = 1
    /\ percentage = <<13, 5>>
    /\ progress = <<1, 1>>
    /\ currentPercentage = <<50, 1>>
    /\ currentEndAngle = RatAdd(startAngle, <<180, 1>>)
    /\ frames = {}
    /\ Cardinality(timers) = 1

====
